---- MODULE Spec2Model ----
(***************************************************************************)
(* Model of the shogi engine bridge: EngineProcess (process supervision,   *)
(* handshake, line collectors, crash recovery), CommandQueue (serial       *)
(* dispatcher) and the host wiring of index.ts.                            *)
(*                                                                         *)
(* One action is one macrotask of the Node.js event loop (an HTTP request, *)
(* a timer callback, a line event, a process exit event) together with the *)
(* whole chain of promise continuations (microtasks) it triggers: the      *)
(* event loop runs those to completion before it takes the next event.     *)
(* The synchronous call chains of the code are pure operators on a state   *)
(* record s; an action commits the record it computes.                     *)
(*                                                                         *)
(* Time is kept relative: a crash timestamp t is held as its age           *)
(* Date.now() - t, and an armed timer holds the delay it was armed with.   *)
(***************************************************************************)
EXTENDS Integers, Sequences, FiniteSets, TLC

\* ---------------------------------------------------------------- bounds
MaxTasks == 2          \* API calls (enqueue) made over a run
MaxQueueTasks == 3     \* the same, when the engine does not crash
MaxCrashes == 1        \* crash events (handleCrash calls) over a run
MaxSupervisorCrashes == 4  \* the same, when the supervisor runs without callers
MaxLines == 2          \* lines of a collector the model keeps, where it keeps any
NumOptions == 1        \* entries of config.engineOptions
TimeStep == 60000      \* milliseconds by which the clock moves in one step

\* ------------------------------------------------------ program constants
MAX_RETRIES == 3
RETRY_WINDOW_MS == 180000
BACKOFF_MS == 1000
USI_TIMEOUT_MS == 10000
ISREADY_TIMEOUT_MS == 30000
INFINITE_IDLE_MS == 10000
ANALYZE_HEADROOM_MS == 30000
ANALYZE_UNBOUNDED_TIMEOUT_MS == 300000
RAW_TIMEOUT_MS == 10000
RAW_IDLE_MS == 500
SHUTDOWN_GRACE_MS == 500

\* ------------------------------------------------------------- vocabulary
Absent == -1           \* an argument that was not supplied (undefined)
NoTimer == -1          \* a timer that is not armed
NoToken == 0           \* activeStopToken = null
NoProc == 0            \* proc = null
WaitT == 1000          \* the positive waittime used by bounded calls
MaxGoArg == 3          \* largest waittime, depth and nodes drawn for goCommand
MaxResultLines == 2    \* lines handed to parseAnalysisResult

TaskIds == 1..(MaxTasks + MaxQueueTasks)   \* ids a run can hand out
Pids == 1..(MaxCrashes + MaxSupervisorCrashes + 1)   \* a crash spawns at most one child
CollIdx == 1..(MaxTasks + MaxQueueTasks + MAX_RETRIES + 1)
Waits == {Absent, 0, WaitT}
LineKinds == {"usiok", "readyok", "bestmove", "info", "blank"}
RestartSlots == 1..MAX_RETRIES

VARIABLES
  proc,             \* EngineProcess.proc: pid of the handle, NoProc when null
  spawned,          \* number of processes spawned so far (pids 1..spawned)
  alive,            \* pids that are running (spawned, not yet exited)
  ready,            \* EngineProcess.ready
  shuttingDown,     \* EngineProcess.shuttingDown
  crashTimestamps,  \* EngineProcess.crashTimestamps, each kept as its age
  activeStopToken,  \* EngineProcess.activeStopToken
  queue,            \* CommandQueue.queue: ids of the waiting wrappers
  running,          \* CommandQueue.running
  task,             \* per enqueue call: its arguments, body state and future
  colls,            \* listeners on the 'line' event, in registration order
  restarts,         \* pending restart attempts (setTimeout of handleCrash)
  host,             \* the host process: "new", "starting", "serving", "exited"
  fatalEmitted,     \* number of 'fatal' events emitted
  shutdownTimer,    \* grace timer of shutdown()
  crashes,          \* number of handleCrash calls so far
  scheduled,        \* number of restarts handleCrash has scheduled so far
  cap,              \* the bounds of the run: cap.tasks, cap.crashes
  wrote,            \* commands written to the engine by the last step
  event,            \* what the last step was, for the properties
  calc,             \* a pure function of the code applied to drawn arguments
  owed              \* the engine: callers of the go commands it has not yet
                    \* answered with a bestmove, oldest first (NoTrack where
                    \* the engine's output is left free)

vars == <<proc, spawned, alive, ready, shuttingDown, crashTimestamps,
          activeStopToken, queue, running, task, colls, restarts, host,
          fatalEmitted, shutdownTimer, crashes, scheduled, cap, wrote,
          event, calc, owed>>

\* The state as one record, so that the synchronous call chains of the code
\* compose as operators. wrote restarts empty at every step.
S ==
  [proc |-> proc, spawned |-> spawned, alive |-> alive, ready |-> ready,
   shuttingDown |-> shuttingDown, crashTimestamps |-> crashTimestamps,
   activeStopToken |-> activeStopToken, queue |-> queue, running |-> running,
   task |-> task, colls |-> colls, restarts |-> restarts, host |-> host,
   fatalEmitted |-> fatalEmitted, shutdownTimer |-> shutdownTimer,
   crashes |-> crashes, scheduled |-> scheduled, cap |-> cap,
   wrote |-> <<>>, owed |-> owed]

\* The engine answers every go command with one bestmove line: the callers
\* of the go commands among the commands written.
RECURSIVE searching(_)
searching(ws) ==
  IF Len(ws) = 0 THEN <<>>
  ELSE (IF Head(ws).cmd \in {"go", "go infinite"} THEN <<Head(ws).by.id>>
        ELSE <<>>) \o searching(Tail(ws))

NoTrack == <<0>>

Commit(s, e) ==
  /\ s.crashes <= cap.crashes
  /\ crashes' = s.crashes
  /\ scheduled' = s.scheduled
  /\ cap' = cap
  /\ proc' = s.proc
  /\ spawned' = s.spawned
  /\ alive' = s.alive
  /\ ready' = s.ready
  /\ shuttingDown' = s.shuttingDown
  /\ crashTimestamps' = s.crashTimestamps
  /\ activeStopToken' = s.activeStopToken
  /\ queue' = s.queue
  /\ running' = s.running
  /\ task' = s.task
  /\ colls' = s.colls
  /\ restarts' = s.restarts
  /\ host' = s.host
  /\ fatalEmitted' = s.fatalEmitted
  /\ shutdownTimer' = s.shutdownTimer
  /\ wrote' = s.wrote
  /\ event' = e
  /\ calc' = calc
  /\ owed' = IF owed = NoTrack THEN owed ELSE s.owed \o searching(s.wrote)

Ev(a, id, res) == [a |-> a, id |-> id, res |-> res]

TaskOwner(t) == [k |-> "task", id |-> t]
InitOwner == [k |-> "init", id |-> 0]
RestartOwner(r) == [k |-> "restart", id |-> r]

NewTask == [kind |-> "none", wait |-> Absent, tok |-> NoToken,
            body |-> "new", future |-> "none", err |-> "none", lines |-> <<>>,
            passed |-> <<>>, cmd |-> ""]
FreeSlot == [st |-> "free", timer |-> NoTimer]

\* ------------------------------------------------------------ EngineProcess

\* write(): throws when there is no handle, else appends to the child's stdin.
writeThrows(s) == s.proc = NoProc

write(s, command, by) ==
  [s EXCEPT !.wrote = Append(@, [cmd |-> command, by |-> by, pid |-> s.proc])]

\* The predicates handed to doSendAndCollect: parsed.type === 'bestmove' by
\* analyze, 'usiok' and 'readyok' by handshake, and the raw-command route's
\* terminal-token / blank-after-content test.
TERMINAL_TOKENS == {"usiok", "readyok", "bestmove"}

stopPredicate(stop, kind, hasContent) ==
  CASE stop = "bestmove" -> kind = "bestmove"
    [] stop = "usiok" -> kind = "usiok"
    [] stop = "readyok" -> kind = "readyok"
    [] stop = "raw" -> \/ kind \in TERMINAL_TOKENS
                       \/ kind = "blank" /\ hasContent

\* lines.push(raw); the model keeps the first cap.lines lines of a task's
\* collector and none of a handshake's.
push(c, kind) ==
  IF c.owner.k = "task" /\ Len(c.lines) < c.keep
    THEN Append(c.lines, kind) ELSE c.lines

\* doSendAndCollect: arm the hard timer, attach the listener, write. When the
\* write throws the promise is rejected by the executor, but the timer and
\* the listener stay behind (dead: settling it again has no effect).
doSendAndCollect(s, owner, command, stop, timeoutMs, idleTimeoutMs) ==
  LET c == [owner |-> owner, kind |-> "collect", cmd |-> command,
            stop |-> stop, timer |-> timeoutMs, idleTimer |-> NoTimer,
            idleMs |-> idleTimeoutMs, stopped |-> FALSE, lines |-> <<>>,
            hasContent |-> FALSE, dead |-> writeThrows(s),
            keep |-> s.cap.lines, passed |-> <<>>]
      s1 == [s EXCEPT !.colls = Append(@, c)]
  IN IF writeThrows(s) THEN s1 ELSE write(s1, command, owner)

\* doInfiniteGo: attach the listener, write, arm the 10 s idle timer. A throw
\* of the write leaves the listener behind and no timer.
doInfiniteGo(s, owner, goCommand) ==
  LET c == [owner |-> owner, kind |-> "infinite", cmd |-> goCommand,
            stop |-> "bestmove", timer |-> NoTimer,
            idleTimer |-> IF writeThrows(s) THEN NoTimer ELSE INFINITE_IDLE_MS,
            idleMs |-> 0, stopped |-> FALSE, lines |-> <<>>,
            hasContent |-> FALSE, dead |-> writeThrows(s),
            keep |-> s.cap.lines, passed |-> <<>>]
      s1 == [s EXCEPT !.colls = Append(@, c)]
  IN IF writeThrows(s) THEN s1 ELSE write(s1, goCommand, owner)

\* The hard timeout of analyze without the 30 s of headroom.
timeoutMsNoHeadroom(waittime) ==
  IF waittime # Absent THEN waittime ELSE ANALYZE_UNBOUNDED_TIMEOUT_MS

\* The hard timeout analyze passes to doSendAndCollect.
timeoutMs(waittime) ==
  IF waittime # Absent THEN waittime + ANALYZE_HEADROOM_MS
                       ELSE ANALYZE_UNBOUNDED_TIMEOUT_MS

\* handleCrash: prune, push, then give up or schedule the restart.
prune(ts) == SelectSeq(ts, LAMBDA age : age < RETRY_WINDOW_MS)

freeSlot(s) ==
  CHOOSE r \in RestartSlots :
    /\ s.restarts[r].st = "free"
    /\ \A q \in RestartSlots : q < r => s.restarts[q].st # "free"

\* A delay that does not grow with the window.
backoffFlat(n) == BACKOFF_MS

\* const delay = 1000 * this.crashTimestamps.length
backoff(n) == BACKOFF_MS * n

\* handleCrash giving up one crash early (>= instead of >).
handleCrashEarly(s) ==
  LET ts == Append(prune(s.crashTimestamps), 0)
      s1 == [s EXCEPT !.crashTimestamps = ts, !.crashes = @ + 1]
  IN IF Len(ts) >= MAX_RETRIES
       THEN [s1 EXCEPT !.fatalEmitted = @ + 1,
                       !.host = IF @ = "serving" THEN "exited" ELSE @]
       ELSE [s1 EXCEPT !.scheduled = @ + 1,
                       !.restarts[freeSlot(s1)] =
                          [st |-> "timer", timer |-> backoff(Len(ts))]]

handleCrash(s) ==
  LET ts == Append(prune(s.crashTimestamps), 0)
      s1 == [s EXCEPT !.crashTimestamps = ts, !.crashes = @ + 1]
  IN IF Len(ts) > MAX_RETRIES
       THEN [s1 EXCEPT !.fatalEmitted = @ + 1,
                       !.host = IF @ = "serving" THEN "exited" ELSE @]
       ELSE [s1 EXCEPT !.scheduled = @ + 1,
                       !.restarts[freeSlot(s1)] =
                          [st |-> "timer", timer |-> backoff(Len(ts))]]

\* ------------------------------------------------------------- CommandQueue
\* enqueue pushes a wrapper that runs the task, settles the caller's future
\* with the task's own outcome and then, in its finally block, clears running
\* and calls next(). queueNext, runTask and settle are that chain.
RECURSIVE queueNext(_), runTask(_, _), settle(_, _, _, _, _)

\* A call that has returned: its outcome is what is left of it (its arguments
\* are out of scope).
Returned(outcome, lines, err) ==
  [NewTask EXCEPT !.body = IF outcome = "resolved" THEN "done" ELSE "failed",
                  !.future = outcome, !.lines = lines, !.err = err]

\* settle without the finally block on the failure path.
settleNoFinally(s, t, outcome, lines, err) ==
  LET s1 == [s EXCEPT !.task[t] = Returned(outcome, lines, err)]
  IN IF outcome = "rejected" THEN s1
     ELSE queueNext([s1 EXCEPT !.running = FALSE])

\* The wrapper's resolve(result) / reject(err) and its finally block.
settle(s, t, outcome, lines, err) ==
  queueNext([s EXCEPT !.task[t] = Returned(outcome, lines, err),
                      !.running = FALSE])

\* next() without the running test.
queueNextUnguarded(s) ==
  IF Len(s.queue) = 0 THEN s
  ELSE LET t == Head(s.queue)
       IN runTask([s EXCEPT !.running = TRUE, !.queue = Tail(@),
                            !.task[t].body = "running"], t)

\* next() taking the newest wrapper (pop) instead of the oldest (shift).
queueNextLifo(s) ==
  IF s.running \/ Len(s.queue) = 0 THEN s
  ELSE LET t == s.queue[Len(s.queue)]
       IN runTask([s EXCEPT !.running = TRUE,
                            !.queue = SubSeq(@, 1, Len(@) - 1),
                            !.task[t].body = "running"], t)

\* next() removing the wrapper behind the one it starts as well.
queueNextDropsTwo(s) ==
  IF s.running \/ Len(s.queue) = 0 THEN s
  ELSE LET t == Head(s.queue)
       IN runTask([s EXCEPT !.running = TRUE,
                            !.queue = SubSeq(@, 3, Len(@)),
                            !.task[t].body = "running"], t)

\* CommandQueue.next
queueNext(s) ==
  IF s.running \/ Len(s.queue) = 0 THEN s
  ELSE LET t == Head(s.queue)
       IN runTask([s EXCEPT !.running = TRUE, !.queue = Tail(@),
                            !.task[t].body = "running"], t)

\* runTask with analyze split in two: the task only sets the position.
runTaskSplit(s, t) ==
  LET kind == s.task[t].kind
  IN CASE kind = "void" ->
            IF writeThrows(s) THEN settle(s, t, "rejected", <<>>, "noproc")
            ELSE settle(write(s, s.task[t].cmd, TaskOwner(t)), t, "resolved", <<>>,
                        "none")
       [] kind = "collect" ->
            IF writeThrows(s)
              THEN settle(doSendAndCollect(s, TaskOwner(t), s.task[t].cmd, "raw",
                                           RAW_TIMEOUT_MS, RAW_IDLE_MS),
                          t, "rejected", <<>>, "noproc")
              ELSE doSendAndCollect(s, TaskOwner(t), s.task[t].cmd, "raw",
                                    RAW_TIMEOUT_MS, RAW_IDLE_MS)
       [] kind = "analyze" ->
            IF writeThrows(s) THEN settle(s, t, "rejected", <<>>, "noproc")
            ELSE settle(write(s, "position", TaskOwner(t)), t, "resolved",
                        <<>>, "none")

\* The task bodies of sendVoid, sendAndCollect and analyze, up to their first
\* suspension (or to their end when they never suspend).
runTask(s, t) ==
  LET kind == s.task[t].kind
      tok == s.task[t].tok
      s1 == IF kind = "analyze" /\ tok # NoToken
              THEN [s EXCEPT !.activeStopToken = tok] ELSE s
      cleared == IF kind = "analyze" /\ tok # NoToken
                   THEN [s1 EXCEPT !.activeStopToken = NoToken] ELSE s1
  IN CASE kind = "void" ->
            IF writeThrows(s) THEN settle(s, t, "rejected", <<>>, "noproc")
            ELSE settle(write(s, s.task[t].cmd, TaskOwner(t)), t, "resolved", <<>>,
                        "none")
       [] kind = "collect" ->
            IF writeThrows(s)
              THEN settle(doSendAndCollect(s, TaskOwner(t), s.task[t].cmd, "raw",
                                           RAW_TIMEOUT_MS, RAW_IDLE_MS),
                          t, "rejected", <<>>, "noproc")
              ELSE doSendAndCollect(s, TaskOwner(t), s.task[t].cmd, "raw",
                                    RAW_TIMEOUT_MS, RAW_IDLE_MS)
       [] kind = "analyze" ->
            IF writeThrows(s1) THEN settle(cleared, t, "rejected", <<>>, "noproc")
            ELSE LET s2 == write(s1, "position", TaskOwner(t))
                 IN IF s.task[t].wait = 0
                      THEN doInfiniteGo(s2, TaskOwner(t), "go infinite")
                      ELSE doSendAndCollect(s2, TaskOwner(t), "go", "bestmove",
                                            timeoutMs(s.task[t].wait), 0)

\* CommandQueue.enqueue
enqueue(s, t) == queueNext([s EXCEPT !.queue = Append(@, t)])

\* ---------------------------------------------------- handshake, continuations
RECURSIVE writeOptions(_, _, _)
writeOptions(s, owner, n) ==
  IF n = 0 THEN s ELSE writeOptions(write(s, "setoption", owner), owner, n - 1)

\* The handshake promise rejects: initialize() fails and main exits the host;
\* the restart callback's catch calls handleCrash.
handshakeFailed(s, owner) ==
  IF owner.k = "init" THEN [s EXCEPT !.host = "exited"]
  ELSE handleCrash([s EXCEPT !.restarts[owner.id] = FreeSlot])

\* The handshake promise resolves: ready = true; main registers the fatal
\* listener and starts to listen.
handshakeDone(s, owner) ==
  IF owner.k = "init" THEN [s EXCEPT !.ready = TRUE, !.host = "serving"]
  ELSE [s EXCEPT !.ready = TRUE, !.restarts[owner.id] = FreeSlot]

\* handshakeTail leaving the configured options out.
handshakeTailNoOptions(s, owner) ==
  IF writeThrows(s)
    THEN handshakeFailed(s, owner)
    ELSE doSendAndCollect(s, owner, "isready", "readyok", ISREADY_TIMEOUT_MS, 0)

\* handshake() after usiok: one setoption per option, then isready.
handshakeTail(s, owner) ==
  IF writeThrows(s)
    THEN handshakeFailed(IF NumOptions = 0
                           THEN doSendAndCollect(s, owner, "isready", "readyok",
                                                 ISREADY_TIMEOUT_MS, 0)
                           ELSE s, owner)
    ELSE doSendAndCollect(writeOptions(s, owner, NumOptions), owner, "isready",
                          "readyok", ISREADY_TIMEOUT_MS, 0)

\* handshake() from its start: usi, wait for usiok.
handshake(s, owner) ==
  IF writeThrows(s)
    THEN handshakeFailed(doSendAndCollect(s, owner, "usi", "usiok",
                                          USI_TIMEOUT_MS, 0), owner)
    ELSE doSendAndCollect(s, owner, "usi", "usiok", USI_TIMEOUT_MS, 0)

\* continue without the settle-once rule of a promise: a collector whose
\* promise was already rejected by its executor settles the call again.
continueSettlesAgain(s, c, outcome, err) ==
  IF s.host = "exited" THEN s
  ELSE IF c.owner.k = "task"
    THEN LET t == c.owner.id
             s1 == IF s.task[t].kind = "analyze" /\ s.task[t].tok # NoToken
                     THEN [s EXCEPT !.activeStopToken = NoToken] ELSE s
         IN settle(s1, t, outcome, c.lines, err)
  ELSE IF outcome = "rejected" THEN handshakeFailed(s, c.owner)
  ELSE IF c.cmd = "usi" THEN handshakeTail(s, c.owner)
  ELSE handshakeDone(s, c.owner)

\* continue with analyze clearing the token on success only (no finally).
continueKeepToken(s, c, outcome, err) ==
  IF s.host = "exited" \/ c.dead THEN s
  ELSE IF c.owner.k = "task"
    THEN LET t == c.owner.id
             s1 == IF s.task[t].kind = "analyze" /\ s.task[t].tok # NoToken
                      /\ outcome = "resolved"
                     THEN [s EXCEPT !.activeStopToken = NoToken] ELSE s
         IN settle(s1, t, outcome, c.lines, err)
  ELSE IF outcome = "rejected" THEN handshakeFailed(s, c.owner)
  ELSE IF c.cmd = "usi" THEN handshakeTail(s, c.owner)
  ELSE handshakeDone(s, c.owner)

\* What runs when collector c's promise settles: the code after the await.
continue(s, c, outcome, err) ==
  IF s.host = "exited" \/ c.dead THEN s
  ELSE IF c.owner.k = "task"
    THEN LET t == c.owner.id
             s1 == IF s.task[t].kind = "analyze" /\ s.task[t].tok # NoToken
                     THEN [s EXCEPT !.activeStopToken = NoToken] ELSE s
         IN [settle(s1, t, outcome, c.lines, err)
               EXCEPT !.task[t].passed = c.passed]
  ELSE IF outcome = "rejected" THEN handshakeFailed(s, c.owner)
  ELSE IF c.cmd = "usi" THEN handshakeTail(s, c.owner)
  ELSE handshakeDone(s, c.owner)

RECURSIVE continueAll(_, _, _, _)
continueAll(s, cs, outcome, err) ==
  IF Len(cs) = 0 THEN s
  ELSE continueAll(continue(s, Head(cs), outcome, err), Tail(cs), outcome, err)

\* onEachLine?.(raw, parsed): the lines handed to the callback of analyze
\* (the model keeps as many of them as of the collected lines). The
\* handshake and sendAndCollect pass no callback.
onEachLine(c, kind) ==
  IF c.owner.k = "task" /\ c.stop = "bestmove"
       /\ c.cmd \in {"go", "go infinite"} /\ Len(c.passed) < c.keep
    THEN Append(c.passed, kind) ELSE c.passed

\* The listener calling the callback only for the lines that do not end the
\* collection.
onLineSkipsLast(c, kind) ==
  LET c1 == [c EXCEPT !.lines = push(c, kind),
                      !.hasContent = @ \/ (c.stop = "raw" /\ kind = "info")]
  IN IF (IF c.kind = "infinite" THEN kind = "bestmove"
         ELSE stopPredicate(c.stop, kind, c.hasContent)) THEN c1
     ELSE IF c.kind = "infinite"
       THEN [c1 EXCEPT !.idleTimer = INFINITE_IDLE_MS,
                       !.passed = onEachLine(c, kind)]
     ELSE IF c.idleMs # 0
       THEN [c1 EXCEPT !.idleTimer = c.idleMs, !.passed = onEachLine(c, kind)]
     ELSE [c1 EXCEPT !.passed = onEachLine(c, kind)]

\* The listener of a collector, called with one line.
stopsOn(c, kind) ==
  IF c.kind = "infinite" THEN kind = "bestmove"
  ELSE stopPredicate(c.stop, kind, c.hasContent)

onLine(c, kind) ==
  LET c1 == [c EXCEPT !.lines = push(c, kind),
                      !.passed = onEachLine(c, kind),
                      !.hasContent = @ \/ (c.stop = "raw" /\ kind = "info")]
  IN IF stopsOn(c, kind) THEN c1
     ELSE IF c.kind = "infinite" THEN [c1 EXCEPT !.idleTimer = INFINITE_IDLE_MS]
     ELSE IF c.idleMs # 0 THEN [c1 EXCEPT !.idleTimer = c.idleMs]
     ELSE c1

RECURSIVE mapLine(_, _)
mapLine(cs, kind) ==
  IF Len(cs) = 0 THEN <<>>
  ELSE <<onLine(Head(cs), kind)>> \o mapLine(Tail(cs), kind)

\* emit('line'): every attached listener is called, in registration order;
\* the continuations of the collectors that stopped run afterwards.
emitLine(s, kind) ==
  LET cs == mapLine(s.colls, kind)
      keep == SelectSeq(cs, LAMBDA c : ~stopsOn(c, kind))
      done == SelectSeq(cs, LAMBDA c : stopsOn(c, kind))
  IN continueAll([s EXCEPT !.colls = keep], done, "resolved", "none")

RemoveAt(seq, i) == SubSeq(seq, 1, i - 1) \o SubSeq(seq, i + 1, Len(seq))

\* spawnEngine, when spawn() succeeds: the new child becomes the handle.
spawnEngine(s) ==
  [s EXCEPT !.spawned = @ + 1, !.proc = s.spawned + 1,
            !.alive = @ \cup {s.spawned + 1}]

SpawnOutcomes == {"ok", "throw"}
NoEvent == Ev("none", 0, "none")
NoCalc == [fn |-> "none"]

\* ------------------------------------------------------------------ actions
InitEngineVars ==
  /\ proc = NoProc
  /\ spawned = 0
  /\ alive = {}
  /\ ready = FALSE
  /\ shuttingDown = FALSE
  /\ crashTimestamps = <<>>
  /\ activeStopToken = NoToken
  /\ queue = <<>>
  /\ running = FALSE
  /\ task = [t \in TaskIds |-> NewTask]
  /\ colls = <<>>
  /\ restarts = [r \in RestartSlots |-> FreeSlot]
  /\ host = "new"
  /\ fatalEmitted = 0
  /\ shutdownTimer = NoTimer
  /\ crashes = 0
  /\ scheduled = 0
  /\ wrote = <<>>
  /\ event = NoEvent

InitEngine ==
  /\ InitEngineVars
  /\ calc = NoCalc
  /\ owed = NoTrack

Init ==
  /\ InitEngine
  /\ cap = [tasks |-> MaxTasks, crashes |-> MaxCrashes, lines |-> 0]

\* main(): await engine.initialize(); a failure exits the host.
Initialize(outcome) ==
  /\ host = "new"
  /\ LET s == [S EXCEPT !.host = "starting"]
     IN IF outcome = "throw"
          THEN Commit([s EXCEPT !.host = "exited"], NoEvent)
          ELSE Commit(handshake(spawnEngine(s), InitOwner), NoEvent)

\* The id the next API call gets.
Fresh(t) ==
  /\ t <= cap.tasks
  /\ task[t].body = "new"
  /\ \A u \in TaskIds : u < t => task[u].body # "new"

\* The command of a sendVoid or sendAndCollect call whose text does not
\* matter: one of the void commands, one of the others.
commandOf(kind) ==
  IF kind = "void" THEN "void" ELSE IF kind = "collect" THEN "raw" ELSE ""

\* The routes call the engine only while the host serves and isReady holds.
CallEngine(t, kind, wait, tok) ==
  /\ host = "serving"
  /\ ready
  /\ Fresh(t)
  /\ Commit(enqueue([S EXCEPT !.task[t] =
                        [NewTask EXCEPT !.kind = kind, !.wait = wait,
                                        !.tok = tok, !.body = "waiting",
                                        !.future = "pending",
                                        !.cmd = commandOf(kind)]], t), NoEvent)

SendVoid(t) == CallEngine(t, "void", Absent, NoToken)

SendAndCollect(t) == CallEngine(t, "collect", Absent, NoToken)

\* analyze without and with a stopToken (the token of call t is t).
Analyze(t, wait, stream) ==
  CallEngine(t, "analyze", wait, IF stream THEN t ELSE NoToken)

\* stopSearch without the token comparison.
stopSearchAnyToken(s, token) ==
  IF s.activeStopToken = NoToken THEN s
  ELSE IF writeThrows(s) THEN s
  ELSE write(s, "stop", [k |-> "stopSearch", id |-> token])

\* stopSearch accepting the token of any call that has been made and has not
\* returned, the active one or not.
stopSearchKnownToken(s, token) ==
  IF s.task[token].tok # token THEN s
  ELSE IF writeThrows(s) THEN s
  ELSE write(s, "stop", [k |-> "stopSearch", id |-> token])

\* stopSearch(token)
stopSearch(s, token) ==
  IF s.activeStopToken = NoToken THEN s
  ELSE IF token # s.activeStopToken THEN s
  ELSE IF writeThrows(s) THEN s
  ELSE write(s, "stop", [k |-> "stopSearch", id |-> token])

stopSearchResult(s, token) ==
  IF s.activeStopToken = NoToken THEN "NO_SEARCH"
  ELSE IF token # s.activeStopToken THEN "INVALID_TOKEN"
  ELSE IF writeThrows(s) THEN "NO_PROCESS"
  ELSE "ok"

\* The stop route's call, with the token of one of the run's calls (a token
\* that was never handed out behaves as that of a call that is not active).
StopSearch(token) ==
  /\ host = "serving"
  /\ token <= cap.tasks
  /\ Commit(stopSearch(S, token),
            Ev("stopSearch", 0, stopSearchResult(S, token)))

\* A line of a running child's stdout reaches the readline interface.
Line(kind) ==
  /\ host \in {"starting", "serving"}
  /\ alive # {}
  /\ IF owed = NoTrack
       THEN /\ colls # <<>>
            /\ Commit(emitLine(S, kind), NoEvent)
       ELSE IF kind = "bestmove"
         THEN /\ owed # <<>>
              /\ Commit(emitLine([S EXCEPT !.owed = Tail(@)], kind), NoEvent)
       ELSE /\ colls # <<>>
            /\ Commit(emitLine(S, kind), NoEvent)

\* new Error(`Timeout waiting for response to: "${command}"`)
TimeoutError(command) == "Timeout waiting for response to: " \o command

\* Collector c belongs to an analyze call that supplied a stopToken.
HoldsToken(c) ==
  /\ c.owner.k = "task"
  /\ ~c.dead
  /\ task[c.owner.id].tok # NoToken

\* The hard timer of a doSendAndCollect fires: cleanup, reject.
HardTimeout(i) ==
  /\ host \in {"starting", "serving"}
  /\ i \in 1..Len(colls)
  /\ colls[i].timer # NoTimer
  /\ Commit(continue([S EXCEPT !.colls = RemoveAt(@, i)], colls[i],
                     "rejected", TimeoutError(colls[i].cmd)),
            Ev("timeout", 0, IF HoldsToken(colls[i]) THEN "token" ELSE "none"))

\* The idle timer of a doSendAndCollect fires: cleanup, resolve.
IdleTimeout(i) ==
  /\ host \in {"starting", "serving"}
  /\ i \in 1..Len(colls)
  /\ colls[i].kind = "collect"
  /\ colls[i].idleTimer # NoTimer
  /\ Commit(continue([S EXCEPT !.colls = RemoveAt(@, i)], colls[i],
                     "resolved", "none"), NoEvent)

\* The idle timer of doInfiniteGo resolving the call once it has sent stop.
infiniteIdleResolves(s, i) ==
  LET c == s.colls[i]
  IN IF c.stopped \/ writeThrows(s)
       THEN [s EXCEPT !.colls[i].idleTimer = NoTimer,
                      !.colls[i].stopped = TRUE]
       ELSE continue(write([s EXCEPT !.colls = RemoveAt(@, i)], "stop",
                           [k |-> "idle", id |-> c.owner.id]),
                     c, "resolved", "none")

\* The idle timer of a doInfiniteGo fires: send stop unless already stopped.
\* A throw of write() in the timer callback is an uncaught exception, which
\* ends the host.
infiniteIdle(s, i) ==
  LET c == s.colls[i]
      s1 == [s EXCEPT !.colls[i].idleTimer = NoTimer,
                      !.colls[i].stopped = TRUE]
  IN IF c.stopped THEN s1
     ELSE IF writeThrows(s) THEN [s1 EXCEPT !.host = "exited"]
     ELSE write(s1, "stop", [k |-> "idle", id |-> c.owner.id])

InfiniteIdle(i) ==
  /\ host \in {"starting", "serving"}
  /\ i \in 1..Len(colls)
  /\ colls[i].kind = "infinite"
  /\ colls[i].idleTimer # NoTimer
  /\ Commit(infiniteIdle(S, i), NoEvent)

\* The exit handler without the shuttingDown test.
onExitAlwaysCrash(s, p) ==
  handleCrash([s EXCEPT !.alive = @ \ {p}, !.ready = FALSE, !.proc = NoProc])

\* The 'exit' handler installed by spawnEngine.
onExit(s, p) ==
  LET s1 == [s EXCEPT !.alive = @ \ {p}, !.ready = FALSE, !.proc = NoProc]
  IN IF s.shuttingDown THEN s1 ELSE handleCrash(s1)

Exit(p) ==
  /\ host \in {"starting", "serving"}
  /\ p \in alive
  /\ Commit(onExit(S, p), NoEvent)

\* The setTimeout callback of handleCrash: spawn, handshake, ready.
Restart(r, outcome) ==
  /\ host \in {"starting", "serving"}
  /\ restarts[r].st = "timer"
  /\ LET s == [S EXCEPT !.restarts[r] = [st |-> "handshake", timer |-> NoTimer]]
     IN IF outcome = "throw"
          THEN Commit(handshakeFailed(s, RestartOwner(r)), NoEvent)
          ELSE Commit(handshake(spawnEngine(s), RestartOwner(r)), NoEvent)

\* SIGINT / SIGTERM: shutdown(), then process.exit(0).
Shutdown ==
  /\ host = "serving"
  /\ ~shuttingDown
  /\ LET s == [S EXCEPT !.shuttingDown = TRUE]
     IN IF writeThrows(s)
          THEN Commit([s EXCEPT !.host = "exited"], Ev("shutdown", 0, "exit0"))
          ELSE Commit([write(s, "quit", [k |-> "shutdown", id |-> 0])
                         EXCEPT !.shutdownTimer = SHUTDOWN_GRACE_MS], NoEvent)

\* After the grace period: this.proc.kill(), which is a TypeError when the
\* handle is null by then; the host exits either way.
ShutdownKill ==
  /\ host = "serving"
  /\ shutdownTimer # NoTimer
  /\ Commit([S EXCEPT !.shutdownTimer = NoTimer, !.host = "exited"],
            Ev("shutdown", 0, IF proc = NoProc THEN "exit1" ELSE "exit0"))

\* Time passes. Timers are not ordered by the time they have left: a timer
\* that is armed fires at some later step, whatever else is armed. The clock
\* moves in steps of TimeStep, which no timer armed with a shorter delay can
\* outlast, and the crash timestamps age by it (an age that reached the
\* window is kept at the window, where the filter drops it).
Timers ==
  {colls[i].timer : i \in 1..Len(colls)}
    \cup {colls[i].idleTimer : i \in 1..Len(colls)}
    \cup {restarts[r].timer : r \in RestartSlots}
    \cup {shutdownTimer}

RECURSIVE older(_, _)
older(ts, d) ==
  IF Len(ts) = 0 THEN <<>>
  ELSE <<IF Head(ts) + d > RETRY_WINDOW_MS THEN RETRY_WINDOW_MS
                                            ELSE Head(ts) + d>>
         \o older(Tail(ts), d)

Elapse ==
  /\ host \in {"starting", "serving"}
  /\ \A tm \in Timers : tm = NoTimer \/ tm >= TimeStep
  /\ \E i \in 1..Len(crashTimestamps) : crashTimestamps[i] < RETRY_WINDOW_MS
  /\ Commit([S EXCEPT !.crashTimestamps = older(@, TimeStep)], NoEvent)

\* The serving host: callers, a crashing engine, restarts, time. (The host's
\* shutdown is part of NextQueue and NextSupervisor.)
Next ==
  \/ \E o \in SpawnOutcomes : Initialize(o)
  \/ \E t \in TaskIds : SendVoid(t)
  \/ \E t \in TaskIds : SendAndCollect(t)
  \/ \E t \in TaskIds, w \in Waits, st \in BOOLEAN : Analyze(t, w, st)
  \/ \E tok \in TaskIds : StopSearch(tok)
  \/ \E k \in LineKinds : Line(k)
  \/ \E i \in CollIdx : HardTimeout(i)
  \/ \E i \in CollIdx : IdleTimeout(i)
  \/ \E i \in CollIdx : InfiniteIdle(i)
  \/ \E p \in Pids : Exit(p)
  \/ \E r \in RestartSlots, o \in SpawnOutcomes : Restart(r, o)
  \/ Elapse

Spec == Init /\ [][Next]_vars

\* The queue with a healthy engine: more callers, no crash.
InitQueue ==
  /\ InitEngine
  /\ cap = [tasks |-> MaxQueueTasks, crashes |-> 0, lines |-> 0]

NextQueue ==
  \/ \E o \in SpawnOutcomes : Initialize(o)
  \/ \E t \in TaskIds : SendVoid(t)
  \/ \E t \in TaskIds : SendAndCollect(t)
  \/ \E t \in TaskIds, w \in Waits, st \in BOOLEAN : Analyze(t, w, st)
  \/ \E tok \in TaskIds : StopSearch(tok)
  \/ \E k \in LineKinds : Line(k)
  \/ \E i \in CollIdx : HardTimeout(i)
  \/ \E i \in CollIdx : IdleTimeout(i)
  \/ \E i \in CollIdx : InfiniteIdle(i)
  \/ \E p \in Pids : Exit(p)
  \/ Shutdown
  \/ ShutdownKill

SpecQueue == InitQueue /\ [][NextQueue]_vars

\* One caller and a healthy engine, with the lines its collector gathers.
InitLines ==
  /\ InitEngine
  /\ cap = [tasks |-> 1, crashes |-> 0, lines |-> MaxLines]

SpecLines == InitLines /\ [][NextQueue]_vars

\* Callers of sendAndCollect alone, with an engine that may exit and the
\* lines their collectors gather.
InitCollect ==
  /\ InitEngine
  /\ cap = [tasks |-> 2, crashes |-> 1, lines |-> MaxLines]

NextCollect ==
  \/ \E o \in SpawnOutcomes : Initialize(o)
  \/ \E t \in TaskIds : SendAndCollect(t)
  \/ \E k \in LineKinds : Line(k)
  \/ \E i \in CollIdx : HardTimeout(i)
  \/ \E i \in CollIdx : IdleTimeout(i)
  \/ \E p \in Pids : Exit(p)
  \/ \E r \in RestartSlots, o \in SpawnOutcomes : Restart(r, o)

SpecCollect == InitCollect /\ [][NextCollect]_vars

\* The streaming route alone: every call is runAnalyzeStream's call of
\* analyze, which passes a callback and no stopToken.
AnalyzeStream(t, wait) == CallEngine(t, "analyze", wait, NoToken)

InitStream ==
  /\ InitEngine
  /\ cap = [tasks |-> 2, crashes |-> 0, lines |-> MaxLines]

NextStream ==
  \/ \E o \in SpawnOutcomes : Initialize(o)
  \/ \E t \in TaskIds, w \in Waits : AnalyzeStream(t, w)
  \/ \E k \in LineKinds : Line(k)
  \/ \E i \in CollIdx : HardTimeout(i)
  \/ \E i \in CollIdx : InfiniteIdle(i)

SpecStream == InitStream /\ [][NextStream]_vars

\* The events runAnalyzeStream has written to the response of call t: the
\* callback forwards the info and best-move lines it is passed, then() sends
\* 'done' and catch() sends 'error'. Nothing is sent before engine.analyze
\* is called.
passedTo(t) ==
  IF \E i \in 1..Len(colls) : colls[i].owner = TaskOwner(t) /\ ~colls[i].dead
    THEN LET i == CHOOSE i \in 1..Len(colls) :
                    colls[i].owner = TaskOwner(t) /\ ~colls[i].dead
         IN colls[i].passed
    ELSE task[t].passed

sent(t) ==
  SelectSeq(passedTo(t), LAMBDA k : k \in {"info", "bestmove"})
    \o (IF task[t].future = "resolved" THEN <<"done">>
        ELSE IF task[t].future = "rejected" THEN <<"error">>
        ELSE <<>>)

\* The supervisor alone: no caller, a larger crash budget.
InitSupervisor ==
  /\ InitEngine
  /\ cap = [tasks |-> 0, crashes |-> MaxSupervisorCrashes, lines |-> 0]

NextSupervisor ==
  \/ \E o \in SpawnOutcomes : Initialize(o)
  \/ \E k \in LineKinds : Line(k)
  \/ \E i \in CollIdx : HardTimeout(i)
  \/ \E p \in Pids : Exit(p)
  \/ \E r \in RestartSlots, o \in SpawnOutcomes : Restart(r, o)
  \/ Shutdown
  \/ ShutdownKill
  \/ Elapse

SpecSupervisor == InitSupervisor /\ [][NextSupervisor]_vars

\* The engine may stay silent or exit; the timers of the host do fire.
TimersFire ==
  /\ \A i \in CollIdx : WF_vars(HardTimeout(i))
  /\ \A i \in CollIdx : WF_vars(IdleTimeout(i))
  /\ \A i \in CollIdx : WF_vars(InfiniteIdle(i))
  /\ \A r \in RestartSlots : WF_vars(\E o \in SpawnOutcomes : Restart(r, o))

SpecLive == Spec /\ TimersFire

\* ---------------------------------------------------- the go command
\* Array.prototype.join on strings.
RECURSIVE join(_, _)
join(parts, sep) ==
  IF Len(parts) = 0 THEN ""
  ELSE IF Len(parts) = 1 THEN parts[1]
  ELSE parts[1] \o sep \o join(Tail(parts), sep)

\* Step 2 of analyze with the infinite branch left out.
goCommandNoInfinite(waittime, depth, nodes) ==
  join(<<"go">>
         \o (IF waittime # Absent THEN <<"movetime " \o ToString(waittime)>> ELSE <<>>)
         \o (IF depth # Absent THEN <<"depth " \o ToString(depth)>> ELSE <<>>)
         \o (IF nodes # Absent THEN <<"nodes " \o ToString(nodes)>> ELSE <<>>),
       " ")

\* Step 2 of analyze: the command it hands to doInfiniteGo or
\* doSendAndCollect.
goCommand(waittime, depth, nodes) ==
  IF waittime = 0 THEN "go infinite"
  ELSE join(<<"go">>
              \o (IF waittime # Absent THEN <<"movetime " \o ToString(waittime)>> ELSE <<>>)
              \o (IF depth # Absent THEN <<"depth " \o ToString(depth)>> ELSE <<>>)
              \o (IF nodes # Absent THEN <<"nodes " \o ToString(nodes)>> ELSE <<>>),
            " ")

\* The arguments the routes pass: parseWaittime yields a non-negative
\* integer, parsePosInt a positive one, each undefined when not supplied.
GoWaits == {Absent} \cup (0..MaxGoArg)
GoLimits == {Absent} \cup (1..MaxGoArg)

InitGo ==
  /\ InitEngineVars
  /\ owed = NoTrack
  /\ cap = [tasks |-> 0, crashes |-> 0, lines |-> 0]
  /\ \E w \in GoWaits, d \in GoLimits, n \in GoLimits :
       calc = [fn |-> "goCommand", waittime |-> w, depth |-> d, nodes |-> n,
               done |-> FALSE, out |-> ""]

BuildGo ==
  /\ calc.fn = "goCommand"
  /\ ~calc.done
  /\ calc' = [calc EXCEPT !.done = TRUE,
                          !.out = goCommand(calc.waittime, calc.depth, calc.nodes)]
  /\ UNCHANGED <<proc, spawned, alive, ready, shuttingDown, crashTimestamps,
                 activeStopToken, queue, running, task, colls, restarts, host,
                 fatalEmitted, shutdownTimer, crashes, scheduled, cap, wrote,
                 event, owed>>

SpecGo == InitGo /\ [][BuildGo]_vars

\* ------------------------------------------------------- usiProtocol.ts
\* A line of engine output is its whitespace-separated tokens: words and
\* integers.
W(x) == [w |-> x]
N(x) == [n |-> x]
IsNum(tok) == "n" \in DOMAIN tok
IsNat(tok) == IsNum(tok) /\ tok.n >= 0
Text(tok) == IF IsNum(tok) THEN ToString(tok.n) ELSE tok.w

\* The lines an engine prints during a search, by what they carry: an info
\* line with an optional centipawn score, mate distance and principal
\* variation (each a sequence of length 0 or 1, resp. of moves), the word
\* 'info' alone, a best-move line with an optional ponder move (in pv), and
\* a line of another kind.
Scores == {<<>>, <<42>>, <<-7>>}
Mates == {<<>>, <<3>>, <<-3>>}
Pvs == {<<>>, <<"2g2f">>, <<"2g2f", "8c8d">>}

EngineLines ==
  [kind : {"info"}, cp : Scores, mate : Mates, pv : Pvs]
    \cup [kind : {"bestmove"}, cp : {<<>>}, mate : {<<>>}, pv : Pvs \ {<<>>}]
    \cup [kind : {"word", "other"}, cp : {<<>>}, mate : {<<>>}, pv : {<<>>}]

Words(moves) == [i \in 1..Len(moves) |-> W(moves[i])]

\* The text of such a line, as the engine prints it.
render(l) ==
  CASE l.kind = "info" ->
         <<W("info"), W("depth"), N(18)>>
           \o (IF l.cp # <<>> THEN <<W("score"), W("cp"), N(l.cp[1])>> ELSE <<>>)
           \o (IF l.mate # <<>> THEN <<W("score"), W("mate"), N(l.mate[1])>>
               ELSE <<>>)
           \o (IF l.pv # <<>> THEN <<W("pv")>> \o Words(l.pv) ELSE <<>>)
    [] l.kind = "bestmove" ->
         <<W("bestmove"), W(l.pv[1])>>
           \o (IF Len(l.pv) > 1 THEN <<W("ponder"), W(l.pv[2])>> ELSE <<>>)
    [] l.kind = "word" -> <<W("info")>>
    [] l.kind = "other" -> <<W("option"), W("name"), W("USI_Hash")>>

\* trimmed.match(/\b<a> <b> (-?\d+)/): the integer of the first match, as a
\* sequence of length 0 or 1.
matchInt(toks, a, b, signed) ==
  LET hits == {i \in 1..(Len(toks) - 2) :
                 /\ toks[i] = W(a)
                 /\ toks[i + 1] = W(b)
                 /\ IF signed THEN IsNum(toks[i + 2]) ELSE IsNat(toks[i + 2])}
  IN IF hits = {} THEN <<>>
     ELSE <<toks[(CHOOSE i \in hits : \A j \in hits : i <= j) + 2].n>>

\* trimmed.match(/\bdepth (\d+)/)
matchDepth(toks) ==
  LET hits == {i \in 1..(Len(toks) - 1) :
                 toks[i] = W("depth") /\ IsNat(toks[i + 1])}
  IN IF hits = {} THEN <<>>
     ELSE <<toks[(CHOOSE i \in hits : \A j \in hits : i <= j) + 1].n>>

\* trimmed.match(/\bpv (.+)/), then split: the tokens after the first pv
\* marker that has one; a sequence holding the list, or empty without match.
matchPv(toks) ==
  LET hits == {i \in 1..(Len(toks) - 1) : toks[i] = W("pv")}
  IN IF hits = {} THEN <<>>
     ELSE LET i == CHOOSE i \in hits : \A j \in hits : i <= j
          IN <<[k \in 1..(Len(toks) - i) |-> Text(toks[i + k])]>>

\* parseLine looking for a mate distance only when the line has no
\* centipawn score.
parseLineScoreFirst(toks) ==
  IF Len(toks) >= 2 /\ toks[1] = W("bestmove")
    THEN [type |-> "bestmove", move |-> Text(toks[2]), ponder |-> <<>>]
  ELSE IF Len(toks) >= 2 /\ toks[1] = W("info")
    THEN [type |-> "info", depth |-> matchDepth(toks),
          score |-> matchInt(toks, "score", "cp", TRUE),
          mate |-> IF matchInt(toks, "score", "cp", TRUE) # <<>> THEN <<>>
                   ELSE matchInt(toks, "score", "mate", TRUE),
          pv |-> matchPv(toks)]
  ELSE [type |-> "raw"]

\* parseLine, for the kinds of line parseAnalysisResult looks at.
parseLine(toks) ==
  IF Len(toks) >= 2 /\ toks[1] = W("bestmove")
    THEN [type |-> "bestmove", move |-> Text(toks[2]),
          ponder |-> LET hits == {i \in 1..Len(toks) : toks[i] = W("ponder")}
                     IN IF hits = {} THEN <<>>
                        ELSE LET i == CHOOSE i \in hits : \A j \in hits : i <= j
                             IN IF i < Len(toks) THEN <<Text(toks[i + 1])>>
                                ELSE <<>>]
  ELSE IF Len(toks) >= 2 /\ toks[1] = W("info")
    THEN [type |-> "info", depth |-> matchDepth(toks),
          score |-> matchInt(toks, "score", "cp", TRUE),
          mate |-> matchInt(toks, "score", "mate", TRUE),
          pv |-> matchPv(toks)]
  ELSE [type |-> "raw"]

abs(x) == IF x < 0 THEN 0 - x ELSE x

\* parseAnalysisResult taking the first info line instead of the last.
parseAnalysisResultFirstInfo(lines) ==
  LET parsed == [i \in 1..Len(lines) |-> parseLine(lines[i])]
      infoLines == SelectSeq(parsed, LAMBDA l : l.type = "info")
      bests == SelectSeq(parsed, LAMBDA l : l.type = "bestmove")
      bestmove == IF bests = <<>> THEN <<>> ELSE <<bests[1].move>>
      ponder == IF bests = <<>> THEN <<>> ELSE bests[1].ponder
  IN IF infoLines # <<>> /\ infoLines[1].mate # <<>>
       THEN LET lastInfo == infoLines[1]
            IN [bestmove |-> bestmove, ponder |-> ponder, mate |-> TRUE,
                mate_length |-> abs(lastInfo.mate[1]),
                mate_moves |-> join(IF lastInfo.pv = <<>> THEN <<>>
                                    ELSE lastInfo.pv[1], " ")]
       ELSE [bestmove |-> bestmove, ponder |-> ponder, mate |-> FALSE,
             score |-> IF infoLines = <<>> THEN <<>>
                       ELSE infoLines[1].score]

\* parseAnalysisResult taking the last info line that carries a mate
\* distance or a centipawn score.
parseAnalysisResultQualifying(lines) ==
  LET parsed == [i \in 1..Len(lines) |-> parseLine(lines[i])]
      infoLines == SelectSeq(parsed, LAMBDA l :
                      l.type = "info" /\ (l.mate # <<>> \/ l.score # <<>>))
      bests == SelectSeq(parsed, LAMBDA l : l.type = "bestmove")
      bestmove == IF bests = <<>> THEN <<>> ELSE <<bests[1].move>>
      ponder == IF bests = <<>> THEN <<>> ELSE bests[1].ponder
  IN IF infoLines # <<>> /\ infoLines[Len(infoLines)].mate # <<>>
       THEN LET lastInfo == infoLines[Len(infoLines)]
            IN [bestmove |-> bestmove, ponder |-> ponder, mate |-> TRUE,
                mate_length |-> abs(lastInfo.mate[1]),
                mate_moves |-> join(IF lastInfo.pv = <<>> THEN <<>>
                                    ELSE lastInfo.pv[1], " ")]
       ELSE [bestmove |-> bestmove, ponder |-> ponder, mate |-> FALSE,
             score |-> IF infoLines = <<>> THEN <<>>
                       ELSE infoLines[Len(infoLines)].score]

\* parseAnalysisResult: null and undefined are the empty sequence, a value
\* that is present is a sequence of length 1.
parseAnalysisResult(lines) ==
  LET parsed == [i \in 1..Len(lines) |-> parseLine(lines[i])]
      infoLines == SelectSeq(parsed, LAMBDA l : l.type = "info")
      bests == SelectSeq(parsed, LAMBDA l : l.type = "bestmove")
      bestmove == IF bests = <<>> THEN <<>> ELSE <<bests[1].move>>
      ponder == IF bests = <<>> THEN <<>> ELSE bests[1].ponder
  IN IF infoLines # <<>> /\ infoLines[Len(infoLines)].mate # <<>>
       THEN LET lastInfo == infoLines[Len(infoLines)]
            IN [bestmove |-> bestmove, ponder |-> ponder, mate |-> TRUE,
                mate_length |-> abs(lastInfo.mate[1]),
                mate_moves |-> join(IF lastInfo.pv = <<>> THEN <<>>
                                    ELSE lastInfo.pv[1], " ")]
       ELSE [bestmove |-> bestmove, ponder |-> ponder, mate |-> FALSE,
             score |-> IF infoLines = <<>> THEN <<>>
                       ELSE infoLines[Len(infoLines)].score]

\* The route hands the lines analyze resolved with to parseAnalysisResult.
InitResult ==
  /\ InitEngineVars
  /\ owed = NoTrack
  /\ cap = [tasks |-> 0, crashes |-> 0, lines |-> 0]
  /\ \E n \in 0..MaxResultLines : \E ls \in [1..n -> EngineLines] :
       calc = [fn |-> "parseAnalysisResult", lines |-> ls, done |-> FALSE,
               out |-> [mate |-> FALSE]]

Summarize ==
  /\ calc.fn = "parseAnalysisResult"
  /\ ~calc.done
  /\ calc' = [calc EXCEPT
                !.done = TRUE,
                !.out = parseAnalysisResult(
                          [i \in 1..Len(calc.lines) |-> render(calc.lines[i])])]
  /\ UNCHANGED <<proc, spawned, alive, ready, shuttingDown, crashTimestamps,
                 activeStopToken, queue, running, task, colls, restarts, host,
                 fatalEmitted, shutdownTimer, crashes, scheduled, cap, wrote,
                 event, owed>>

SpecResult == InitResult /\ [][Summarize]_vars

\* Info lines by the fields they carry, each present or not on its own; the
\* other tokens an engine prints (seldepth, multipv, nodes) are there or not.
Depths == {<<>>, <<18>>, <<0>>}

InfoLines ==
  [depth : Depths, cp : Scores, mate : Mates, pv : Pvs, more : BOOLEAN]

\* The text of such a line: 'info depth 18 seldepth 22 multipv 1 score cp 42
\* nodes 1234 pv 2g2f 8c8d'.
infoText(l) ==
  <<W("info")>>
    \o (IF l.depth # <<>> THEN <<W("depth"), N(l.depth[1])>> ELSE <<>>)
    \o (IF l.more THEN <<W("seldepth"), N(22), W("multipv"), N(1)>> ELSE <<>>)
    \o (IF l.cp # <<>> THEN <<W("score"), W("cp"), N(l.cp[1])>> ELSE <<>>)
    \o (IF l.mate # <<>> THEN <<W("score"), W("mate"), N(l.mate[1])>> ELSE <<>>)
    \o (IF l.more THEN <<W("nodes"), N(1234)>> ELSE <<>>)
    \o (IF l.pv # <<>> THEN <<W("pv")>> \o Words(l.pv) ELSE <<>>)

InitParse ==
  /\ InitEngineVars
  /\ owed = NoTrack
  /\ cap = [tasks |-> 0, crashes |-> 0, lines |-> 0]
  /\ \E l \in InfoLines :
       calc = [fn |-> "parseLine", line |-> l, done |-> FALSE,
               out |-> [type |-> "none"]]

ParseLine ==
  /\ calc.fn = "parseLine"
  /\ ~calc.done
  /\ calc' = [calc EXCEPT !.done = TRUE,
                          !.out = parseLine(infoText(calc.line))]
  /\ UNCHANGED <<proc, spawned, alive, ready, shuttingDown, crashTimestamps,
                 activeStopToken, queue, running, task, colls, restarts, host,
                 fatalEmitted, shutdownTimer, crashes, scheduled, cap, wrote,
                 event, owed>>

SpecParse == InitParse /\ [][ParseLine]_vars

\* ------------------------------------------------- the raw-command route
VOID_COMMANDS == {"usinewgame", "gameover", "stop", "ponderhit"}
BLOCKED_COMMANDS == {"go", "go mate", "position", "setoption", "quit"}

\* String.prototype.toLowerCase on the words of the requests drawn.
toLowerCase(w) ==
  CASE w = "GO" -> "go"
    [] w = "Quit" -> "quit"
    [] OTHER -> w

\* The commands requested, as their words.
RawCommands ==
  {<<"go">>, <<"GO">>, <<"go", "mate">>, <<"go", "infinite">>,
   <<"go", "mate", "infinite">>, <<"position">>, <<"position", "startpos">>,
   <<"setoption">>, <<"setoption", "name", "USI_Hash", "value", "16">>,
   <<"quit">>, <<"Quit">>, <<"isready">>, <<"usinewgame">>}

\* GET /api/usi_command/:command
RawCommand(t, ws) ==
  /\ host = "serving"
  /\ Fresh(t)
  /\ LET cmd == join(ws, " ")
         lower == join([i \in 1..Len(ws) |-> toLowerCase(ws[i])], " ")
         call(kind) ==
           enqueue([S EXCEPT !.task[t] =
                      [NewTask EXCEPT !.kind = kind, !.body = "waiting",
                                      !.future = "pending", !.cmd = cmd]], t)
     IN IF lower \in BLOCKED_COMMANDS THEN Commit(S, Ev("raw", t, "400"))
        ELSE IF ~ready THEN Commit(S, Ev("raw", t, "503"))
        ELSE IF lower \in VOID_COMMANDS
          THEN Commit(call("void"), Ev("raw", t, "void"))
        ELSE Commit(call("collect"), Ev("raw", t, "collect"))

InitRaw ==
  /\ InitEngine
  /\ cap = [tasks |-> 2, crashes |-> 0, lines |-> 0]

NextRaw ==
  \/ \E o \in SpawnOutcomes : Initialize(o)
  \/ \E t \in TaskIds, ws \in RawCommands : RawCommand(t, ws)
  \/ \E k \in LineKinds : Line(k)
  \/ \E i \in CollIdx : HardTimeout(i)
  \/ \E i \in CollIdx : IdleTimeout(i)

SpecRaw == InitRaw /\ [][NextRaw]_vars

\* ------------------------------------------------ the routes' isReady test
Routes == {"setoption", "analyze", "stream"}

\* A route that calls the engine without looking at isReady.
RequestNoReadyTest(t, route, wait, valid) ==
  /\ host = "serving"
  /\ Fresh(t)
  /\ LET call(kind, w, cmd) ==
           enqueue([S EXCEPT !.task[t] =
                      [NewTask EXCEPT !.kind = kind, !.wait = w,
                                      !.body = "waiting",
                                      !.future = "pending", !.cmd = cmd]], t)
     IN IF route = "setoption"
          THEN Commit(call("void", Absent, "setoption"), Ev(route, t, "sent"))
        ELSE IF ~valid \/ (route = "analyze" /\ wait = 0)
          THEN Commit(S, Ev(route, t, "400"))
        ELSE Commit(call("analyze", wait, ""), Ev(route, t, "called"))

\* GET /api/setoption/:name/:value, the batch analyze routes and the
\* streaming ones, each up to its call of the engine: the parameters are
\* validated (valid: parseGoParams succeeded), then isReady is tested.
Request(t, route, wait, valid) ==
  /\ host = "serving"
  /\ Fresh(t)
  /\ LET call(kind, w, cmd) ==
           enqueue([S EXCEPT !.task[t] =
                      [NewTask EXCEPT !.kind = kind, !.wait = w,
                                      !.body = "waiting",
                                      !.future = "pending", !.cmd = cmd]], t)
     IN IF route = "setoption"
          THEN IF ~ready THEN Commit(S, Ev(route, t, "503"))
               ELSE Commit(call("void", Absent, "setoption"),
                           Ev(route, t, "sent"))
        ELSE IF ~valid \/ (route = "analyze" /\ wait = 0)
          THEN Commit(S, Ev(route, t, "400"))
        ELSE IF ~ready THEN Commit(S, Ev(route, t, "503"))
        ELSE Commit(call("analyze", wait, ""), Ev(route, t, "called"))

InitReady ==
  /\ InitEngine
  /\ cap = [tasks |-> 2, crashes |-> 1, lines |-> 0]

NextReady ==
  \/ \E o \in SpawnOutcomes : Initialize(o)
  \/ \E t \in TaskIds, r \in Routes, w \in Waits, v \in BOOLEAN :
       Request(t, r, w, v)
  \/ \E t \in TaskIds, ws \in RawCommands : RawCommand(t, ws)
  \/ \E k \in LineKinds : Line(k)
  \/ \E i \in CollIdx : HardTimeout(i)
  \/ \E p \in Pids : Exit(p)
  \/ \E r \in RestartSlots, o \in SpawnOutcomes : Restart(r, o)

SpecReady == InitReady /\ [][NextReady]_vars

\* ------------------------------------------- unbounded searches and stop
\* Searches with and without a stop token, and the stop route, on a healthy
\* engine.
NextInfinite ==
  \/ \E o \in SpawnOutcomes : Initialize(o)
  \/ \E t \in TaskIds, w \in Waits, st \in BOOLEAN : Analyze(t, w, st)
  \/ \E tok \in TaskIds : StopSearch(tok)
  \/ \E k \in LineKinds : Line(k)
  \/ \E i \in CollIdx : HardTimeout(i)
  \/ \E i \in CollIdx : InfiniteIdle(i)

SpecInfinite == InitStream /\ [][NextInfinite]_vars

\* -------------------------------------------- whose bestmove a call gets
\* The analyze route against an engine that answers each search once.
InitOwed ==
  /\ InitEngineVars
  /\ calc = NoCalc
  /\ owed = <<>>
  /\ cap = [tasks |-> 3, crashes |-> 0, lines |-> 0]

SpecOwed == InitOwed /\ [][NextStream]_vars

\* ------------------------------------------------------------------ claims
Executing == {t \in TaskIds : task[t].body = "running"}
Started(t) == task[t].body \in {"running", "done", "failed"}
Settled(t) == task[t].body \in {"done", "failed"}
GoCommands == {"go", "go infinite"}
WroteBy(t) == \E i \in 1..Len(wrote) : wrote[i].by = TaskOwner(t)

\* C1: at most one task body submitted to the CommandQueue is executing at
\* any instant, for any interleaving of enqueue calls, completions, failures
\* and engine crashes.
C1_AtMostOneExecuting == Cardinality(Executing) <= 1

C1_Witness ==
  \E t, u \in TaskIds :
    /\ task[t].body = "running"
    /\ task[u].body = "waiting"
    /\ queue = <<u>>
    /\ ~ready

\* C2: the position command and the search-start command of an analyze call
\* are written consecutively: every search-start command is immediately
\* preceded by the position command of the same call, and every position
\* command is immediately followed by the search-start command of its call.
C2_PositionThenGo ==
  \A i \in 1..Len(wrote) :
    /\ wrote[i].cmd \in GoCommands =>
         /\ i > 1
         /\ wrote[i - 1].cmd = "position"
         /\ wrote[i - 1].by = wrote[i].by
         /\ wrote[i - 1].pid = wrote[i].pid
    /\ wrote[i].cmd = "position" =>
         /\ i < Len(wrote)
         /\ wrote[i + 1].cmd \in GoCommands
         /\ wrote[i + 1].by = wrote[i].by

C2_Witness ==
  \E t, u \in TaskIds :
    /\ t # u
    /\ Len(wrote) = 2
    /\ wrote[1] = [cmd |-> "position", by |-> TaskOwner(t), pid |-> proc]
    /\ wrote[2].cmd \in GoCommands
    /\ Settled(u)
    /\ event.a = "timeout"

\* C3: tasks start, and settle, in the order in which they were enqueued: a
\* task has not started before every task enqueued earlier has settled (ids
\* are handed out in enqueue order).
C3_Fifo ==
  \A t, u \in TaskIds : (t < u /\ Started(u)) => Settled(t)

C3_Witness ==
  /\ Settled(1)
  /\ Settled(2)
  /\ task[3].body = "running"
  /\ WroteBy(3)
  /\ event.a = "timeout"

\* C4: a failing task body rejects the future of its own enqueue call and no
\* other; every future settles with its own body's outcome; the queue is not
\* left blocked: whenever a task waits, a task is executing.
C4_FailureIsolated ==
  /\ \A t \in TaskIds :
       /\ task[t].future = "rejected" <=> task[t].body = "failed"
       /\ task[t].future = "resolved" <=> task[t].body = "done"
       /\ task[t].future = "pending" <=> task[t].body \in {"waiting", "running"}
  /\ running <=> Executing # {}
  /\ Len(queue) > 0 => running
  /\ \A i \in 1..Len(queue) : task[queue[i]].body = "waiting"

C4_Witness ==
  \E t, u \in TaskIds :
    /\ t < u
    /\ task[t].future = "rejected"
    /\ task[t].err = TimeoutError("raw")
    /\ event.a = "timeout"
    /\ task[u].body = "running"
    /\ WroteBy(u)

\* C5 as claimed: stopSearch(token) writes the cancel command if and only if
\* a token is active and equals the supplied one.
C5_StopWrittenIffTokenMatches ==
  [][\A tok \in TaskIds : StopSearch(tok) =>
        ((\E i \in 1..Len(wrote') : wrote'[i].cmd = "stop")
           <=> (activeStopToken # NoToken /\ tok = activeStopToken))]_vars

\* C5 amended: stopSearch(token) writes the cancel command, once and within
\* the call (nothing is enqueued), if and only if a token is active, equals
\* the supplied one and a process handle exists; it fails with NO_SEARCH when
\* no token is active, with INVALID_TOKEN when another token is active, and
\* with write()'s no-process error when the token matches but the handle is
\* null; in the three failure cases nothing is written.
C5_StopSearchGuarded ==
  [][\A tok \in TaskIds : (event'.a = "stopSearch" /\ StopSearch(tok)) =>
        /\ queue' = queue /\ task' = task /\ running' = running
        /\ IF activeStopToken = NoToken
             THEN event'.res = "NO_SEARCH" /\ wrote' = <<>>
           ELSE IF tok # activeStopToken
             THEN event'.res = "INVALID_TOKEN" /\ wrote' = <<>>
           ELSE IF proc = NoProc
             THEN event'.res = "NO_PROCESS" /\ wrote' = <<>>
           ELSE /\ event'.res = "ok"
                /\ wrote' = <<[cmd |-> "stop",
                               by |-> [k |-> "stopSearch", id |-> tok],
                               pid |-> proc]>>]_vars

C5_Witness ==
  /\ event = Ev("stopSearch", 0, "ok")
  /\ Len(wrote) = 1
  /\ wrote[1].cmd = "stop"
  /\ running
  /\ Len(queue) > 0

\* C6: each crash event that finds fewer than 3 crash timestamps inside the
\* 3-minute window schedules exactly one restart and emits no fatal signal;
\* a crash event that finds 3 there (the 4th in the window) emits the fatal
\* signal, schedules no restart and ends a serving host; the window holds
\* more than 3 entries only once the fatal signal has been emitted.
C6_CrashBudget ==
  [][/\ crashes' = crashes + 1 =>
          IF Len(prune(crashTimestamps)) < MAX_RETRIES
            THEN /\ scheduled' = scheduled + 1
                 /\ fatalEmitted' = fatalEmitted
                 /\ Len(crashTimestamps') <= MAX_RETRIES
                 /\ \E r \in RestartSlots : restarts'[r].st = "timer"
            ELSE /\ scheduled' = scheduled
                 /\ fatalEmitted' = fatalEmitted + 1
                 /\ host = "serving" => host' = "exited"
     /\ crashes' = crashes => scheduled' = scheduled /\ fatalEmitted' = fatalEmitted
     /\ Len(crashTimestamps') > MAX_RETRIES => fatalEmitted' > 0]_vars

C6_Witness ==
  /\ fatalEmitted = 1
  /\ scheduled = MAX_RETRIES
  /\ crashes = MAX_RETRIES + 1
  /\ host = "exited"

\* C7 as claimed: when the idle timer of an unbounded search fires for the
\* first time the cancel command is written, exactly once; when it fires
\* again nothing is written; and a best-move line then resolves the call.
C7_IdleStopsExactlyOnce ==
  [][/\ \A i \in CollIdx : InfiniteIdle(i) =>
          IF colls[i].stopped THEN wrote' = <<>>
          ELSE /\ Len(wrote') = 1
               /\ wrote'[1].cmd = "stop"
               /\ colls'[i].stopped
     /\ \A t \in TaskIds :
          (/\ Line("bestmove")
           /\ task[t].body = "running"
           /\ task[t].wait = 0) => task'[t].future = "resolved"]_vars

\* C8 as claimed: every task enqueued on the CommandQueue eventually starts
\* executing, whatever the engine does, for as long as the host lives.
C8_EveryTaskStarts ==
  \A t \in TaskIds :
    (task[t].body = "waiting") ~> (task[t].body # "waiting" \/ host = "exited")

\* C9 as claimed: a task that waits in the queue leaves the queue only while
\* the session is Ready, and is not failed for want of a process.
C9_WaitsUntilReady ==
  [][\A t \in TaskIds :
        (task[t].body = "waiting" /\ task'[t].body # "waiting") =>
           /\ ready
           /\ ready'
           /\ task'[t].err # "noproc"]_vars

\* The executing analyze calls that supplied a stopToken.
TokenHolders ==
  {t \in TaskIds : task[t].kind = "analyze" /\ task[t].tok # NoToken
                     /\ task[t].body = "running"}

\* C10: the active token is non-null exactly while an analyze call that
\* supplied a token is executing, and then it is that call's token; once the
\* call has exited, by success, timeout or a failed write, it is null again.
C10_TokenOnlyWhileExecuting ==
  /\ activeStopToken # NoToken =>
       \E t \in TokenHolders : task[t].tok = activeStopToken
  /\ \A t \in TokenHolders : activeStopToken = task[t].tok

C10_Witness ==
  \E t \in TaskIds :
    /\ event = Ev("timeout", 0, "token")
    /\ task[t].body = "failed"
    /\ task[t].err = TimeoutError("go")
    /\ Executing = {}
    /\ activeStopToken = NoToken

\* The handshakes of a run: the one of initialize() and one per restart slot.
HandshakeOwners == {InitOwner} \cup {RestartOwner(r) : r \in RestartSlots}

\* The commands one step wrote on behalf of owner o, in order.
WrittenBy(w, o) == SelectSeq(w, LAMBDA e : e.by = o)

Cmds(w) == [i \in 1..Len(w) |-> w[i].cmd]

\* What handshake() writes once usiok is in: the options, then isready.
OptionsThenIsready == [i \in 1..(NumOptions + 1) |->
                         IF i <= NumOptions THEN "setoption" ELSE "isready"]

\* C11: in every handshake (initialize and each restart) a step writes either
\* the capability query alone, when the handshake starts, or, in the step
\* that receives the usiok line, one setoption per configured option followed
\* by isready; ready is set only in a step that receives the readyok line.
C11_HandshakeOrder ==
  [][/\ \A o \in HandshakeOwners :
          LET w == Cmds(WrittenBy(wrote', o))
          IN \/ w = <<>>
             \/ /\ w = <<"usi">>
                /\ \A i \in 1..Len(colls) : colls[i].owner # o \/ colls[i].dead
                /\ IF o = InitOwner THEN host = "new"
                   ELSE restarts[o.id].st = "timer"
             \/ /\ w = OptionsThenIsready
                /\ \E i \in 1..Len(colls) :
                     colls[i].owner = o /\ colls[i].cmd = "usi"
                /\ Line("usiok")
     /\ (ready' /\ ~ready) =>
          /\ \E i \in 1..Len(colls) :
               colls[i].owner \in HandshakeOwners /\ colls[i].cmd = "isready"
          /\ wrote' = <<>>
          /\ Line("readyok")]_vars

C11_Witness ==
  /\ ready
  /\ crashes = 1
  /\ spawned = 2
  /\ proc = 2
  /\ \A r \in RestartSlots : restarts[r] = FreeSlot

\* A step in which a handshake's readyok collector goes away unfailed.
HandshakeCompletes ==
  /\ event'.a # "timeout"
  /\ \E i \in 1..Len(colls) :
       /\ colls[i].owner \in HandshakeOwners
       /\ colls[i].cmd = "isready"
       /\ ~colls[i].dead
       /\ \A j \in 1..Len(colls') : colls'[j].owner # colls[i].owner

\* An engine process exits without shutdown() having been called.
UnexpectedExit == ~shuttingDown /\ alive' # alive /\ alive' \subseteq alive

\* C12, without its last part: isReady is false before the initial
\* handshake completes, rises only in a step that completes a handshake and
\* is false after every unexpected exit of an engine process.
C12_ReadyRisesAndFalls ==
  [][/\ host' \in {"new", "starting"} /\ crashes' = 0 => ~ready'
     /\ (~ready /\ ready') => HandshakeCompletes
     /\ UnexpectedExit => ~ready']_vars

\* C12 as claimed: the above, and isReady is never true again once the fatal
\* signal has been emitted (for as long as the host lives).
C12_ReadyStateMachine ==
  [][/\ host' \in {"new", "starting"} /\ crashes' = 0 => ~ready'
     /\ (~ready /\ ready') => HandshakeCompletes
     /\ UnexpectedExit => ~ready'
     /\ (fatalEmitted' > 0 /\ host' # "exited") => ~ready']_vars

\* C13: the hard timer of a bounded analyze is armed with waittime + 30 s, or
\* with 5 minutes when no waittime was given; when it fires, the call's own
\* future is rejected with the timeout error that names its go command, no
\* other call receives a timeout error, ready and the process handle are left
\* as they were, and the task at the head of the queue starts.
C13_BoundedAnalyzeTimeout ==
  [][\A i \in CollIdx :
       (/\ event'.a = "timeout"
        /\ i <= Len(colls)
        /\ colls[i].owner.k = "task"
        /\ colls[i].cmd = "go"
        /\ HardTimeout(i)) =>
          LET t == colls[i].owner.id
          IN /\ colls[i].timer = IF task[t].wait = Absent THEN 300000
                                 ELSE task[t].wait + 30000
             /\ task'[t].future = "rejected"
             /\ task'[t].err = "Timeout waiting for response to: go"
             /\ \A u \in TaskIds \ {t} :
                  /\ task[u].body \in {"done", "failed"} => task'[u] = task[u]
                  /\ task'[u].err = task[u].err \/ task'[u].err = "noproc"
             /\ ready' = ready /\ proc' = proc /\ alive' = alive
             /\ crashes' = crashes
             /\ IF queue = <<>> THEN ~running'
                ELSE /\ task'[Head(queue)].body # "waiting"
                     /\ \E k \in 2..(Len(queue) + 1) :
                          queue' = SubSeq(queue, k, Len(queue))]_vars

C13_Witness ==
  \E t, u \in TaskIds :
    /\ event.a = "timeout"
    /\ task[t].err = TimeoutError("go")
    /\ task[u].body = "running"
    /\ WroteBy(u)
    /\ ready
    /\ Len(queue) > 0

\* C14: an engine process that exits after shutdown() was called triggers no
\* crash handling: no crash timestamp is added, no restart is scheduled and
\* no fatal signal is emitted.
C14_NoCrashHandlingAfterShutdown ==
  [][(shuttingDown /\ \E p \in alive : alive' = alive \ {p}) =>
       /\ crashTimestamps' = crashTimestamps
       /\ crashes' = crashes
       /\ scheduled' = scheduled
       /\ restarts' = restarts
       /\ fatalEmitted' = fatalEmitted
       /\ host' = host]_vars

C14_Witness ==
  /\ shuttingDown
  /\ host = "serving"
  /\ shutdownTimer # NoTimer
  /\ spawned = 2
  /\ alive = {}
  /\ proc = NoProc
  /\ crashes = 1

\* initialize() rejects: main logs the error and leaves with process.exit(1).
InitializeFails == host = "starting" /\ host' = "exited"

\* C15: when initialize() fails at startup (the binary cannot be launched, or
\* a handshake acknowledgment does not arrive in time) the failure reaches
\* the caller and crash recovery was not entered: no crash timestamp is
\* recorded, no restart is scheduled and the session is not Ready.
C15_StartupFailureSkipsRecovery ==
  [][InitializeFails =>
       /\ crashTimestamps' = <<>>
       /\ crashes' = 0
       /\ scheduled' = 0
       /\ \A r \in RestartSlots : restarts'[r] = FreeSlot
       /\ ~ready']_vars

\* The rule table of the search command, row by row.
GoTable(w, d, n) ==
  CASE w = 0 -> "go infinite"
    [] w = Absent /\ d = Absent /\ n = Absent -> "go"
    [] w = Absent /\ d # Absent /\ n = Absent -> "go depth " \o ToString(d)
    [] w = Absent /\ d = Absent /\ n # Absent -> "go nodes " \o ToString(n)
    [] w = Absent /\ d # Absent /\ n # Absent ->
         "go depth " \o ToString(d) \o " nodes " \o ToString(n)
    [] w > 0 /\ d = Absent /\ n = Absent -> "go movetime " \o ToString(w)
    [] w > 0 /\ d # Absent /\ n = Absent ->
         "go movetime " \o ToString(w) \o " depth " \o ToString(d)
    [] w > 0 /\ d = Absent /\ n # Absent ->
         "go movetime " \o ToString(w) \o " nodes " \o ToString(n)
    [] w > 0 /\ d # Absent /\ n # Absent ->
         "go movetime " \o ToString(w) \o " depth " \o ToString(d)
           \o " nodes " \o ToString(n)

\* C16: for every waittime (absent, 0, T > 0), depth and nodes (absent or
\* supplied) the search command analyze builds is the one of the rule table:
\* 'go', then 'movetime T', 'depth D', 'nodes N' in this order for the
\* supplied ones, and exactly 'go infinite' when waittime is 0.
C16_GoCommandTable ==
  (calc.fn = "goCommand" /\ calc.done) =>
     /\ calc.out = GoTable(calc.waittime, calc.depth, calc.nodes)
     /\ (calc.waittime = 2 /\ calc.depth = 3 /\ calc.nodes = 1) =>
          calc.out = "go movetime 2 depth 3 nodes 1"
     /\ (calc.waittime = Absent /\ calc.depth = 3 /\ calc.nodes = Absent) =>
          calc.out = "go depth 3"

C16_Witness ==
  /\ calc.fn = "goCommand"
  /\ calc.done
  /\ calc.waittime = 0
  /\ calc.depth = 2
  /\ calc.nodes = 3
  /\ calc.out = "go infinite"

\* The collectors of sendAndCollect calls whose promise is still pending.
Collecting ==
  {i \in 1..Len(colls) : /\ colls[i].owner.k = "task"
                         /\ colls[i].kind = "collect"
                         /\ colls[i].stop = "raw"
                         /\ ~colls[i].dead}

\* The collector of call t is detached and its timers are cancelled.
Detached(t) ==
  \A j \in 1..Len(colls) : colls[j].owner = TaskOwner(t) => colls[j].dead

\* C17: a sendAndCollect call settles exactly once, by the trigger that fires
\* first: a line that satisfies the stop predicate resolves it with the lines
\* received so far and that line, the idle timer resolves it with the lines
\* received so far, the hard timer rejects it with the error that names the
\* command; a line that does not stop it settles nothing; and once the call
\* has settled no trigger changes its outcome.
C17_SettlesOnceByFirstTrigger ==
  [][/\ \A t \in TaskIds, i \in Collecting :
          LET c == colls[i]
          IN c.owner.id = t =>
             /\ task[t].future = "pending"
             /\ \A k \in LineKinds :
                  (event'.a = "none" /\ Line(k)) =>
                     IF stopsOn(c, k)
                       THEN /\ task'[t].future = "resolved"
                            /\ task'[t].lines =
                                 IF Len(c.lines) < MaxLines
                                   THEN Append(c.lines, k) ELSE c.lines
                            /\ Detached(t)'
                       ELSE /\ task'[t] = task[t]
                            /\ ~Detached(t)'
             /\ (event'.a = "none" /\ IdleTimeout(i)) =>
                  /\ c.lines # <<>>
                  /\ task'[t].future = "resolved"
                  /\ task'[t].lines = c.lines
                  /\ Detached(t)'
             /\ (event'.a = "timeout" /\ HardTimeout(i)) =>
                  /\ task'[t].future = "rejected"
                  /\ task'[t].err = TimeoutError(c.cmd)
                  /\ Detached(t)'
     /\ \A t \in TaskIds : Settled(t) => task'[t] = task[t]]_vars

C17_Witness ==
  /\ task[1].future = "resolved"
  /\ task[1].lines = <<"info", "info">>
  /\ task[2].future = "rejected"
  /\ task[2].err = "noproc"
  /\ Detached(1)
  /\ \A j \in 1..Len(colls) : colls[j].owner # TaskOwner(2)

\* The info and best-move lines of a list of lines, in order.
SearchLines(ls) == SelectSeq(ls, LAMBDA k : k \in {"info", "bestmove"})

\* C18: the onLine callback of analyze is invoked once for every info and
\* best-move line, within the step in which the line arrives and in arrival
\* order: after every step the lines passed to it are the lines collected,
\* and when analyze resolves every info and best-move line of its result has
\* been passed to the callback.
C18_OnLineSeesEveryLine ==
  [][/\ \A i \in 1..Len(colls') :
          (colls'[i].owner.k = "task" /\ colls'[i].cmd \in GoCommands) =>
             SearchLines(colls'[i].passed) = SearchLines(colls'[i].lines)
     /\ \A t \in TaskIds :
          (task[t].kind = "analyze" /\ task'[t].future = "resolved") =>
             /\ SearchLines(task'[t].passed) = SearchLines(task'[t].lines)
             /\ Len(task'[t].lines) = Len(task'[t].passed)]_vars

C18_Witness ==
  \E t \in TaskIds :
    /\ task[t].future = "resolved"
    /\ task[t].lines = <<"info", "bestmove">>
    /\ task[t].passed = <<"info", "bestmove">>

\* The events after the first are pass-through events, closed by exactly one
\* final event once the call has settled.
PassThroughThenFinal(ev, settled) ==
  /\ \A i \in 1..Len(ev) :
       IF settled /\ i = Len(ev) THEN ev[i] \in {"done", "error"}
       ELSE ev[i] \in {"info", "bestmove"}
  /\ settled => Len(ev) >= 1

\* C19: the events of a streaming analysis come in this order: first one
\* session-start event (carrying the token passed to analyze), then the
\* info/best-move pass-through events, then exactly one final event, 'done'
\* on success or 'error' on failure.
C19_StreamEventOrder ==
  \A t \in TaskIds :
    (task[t].body # "new" /\ sent(t) # <<>>) =>
       /\ sent(t)[1] = "session"
       /\ PassThroughThenFinal(Tail(sent(t)), Settled(t))

\* What runAnalyzeStream does send: pass-through events, then one final one.
C19_PassThroughThenFinal ==
  \A t \in TaskIds :
    task[t].body # "new" => PassThroughThenFinal(sent(t), Settled(t))

\* The info lines among the lines of the input, by position.
InfoAt(ls) == {i \in 1..Len(ls) : ls[i].kind = "info"}

\* C20: the evaluation part of the result is determined by the final info
\* line alone: with a mate distance d on it, mate = true, mate_length = |d|
\* and mate_moves = its pv joined by single blanks ('' without pv), whatever
\* centipawn score it carries; otherwise mate = false with its centipawn
\* score, or null; without any info line mate = false and score = null.
C20_LastInfoLineDecides ==
  (calc.fn = "parseAnalysisResult" /\ calc.done) =>
     IF InfoAt(calc.lines) = {}
       THEN ~calc.out.mate /\ calc.out.score = <<>>
       ELSE LET last == calc.lines[CHOOSE i \in InfoAt(calc.lines) :
                                     \A j \in InfoAt(calc.lines) : j <= i]
            IN IF last.mate # <<>>
                 THEN /\ calc.out.mate
                      /\ calc.out.mate_length =
                           (IF last.mate[1] < 0 THEN 0 - last.mate[1]
                            ELSE last.mate[1])
                      /\ calc.out.mate_moves =
                           (CASE last.pv = <<>> -> ""
                              [] Len(last.pv) = 1 -> last.pv[1]
                              [] Len(last.pv) = 2 ->
                                   last.pv[1] \o " " \o last.pv[2])
                 ELSE /\ ~calc.out.mate
                      /\ calc.out.score = last.cp

C20_Witness ==
  /\ calc.fn = "parseAnalysisResult"
  /\ calc.done
  /\ Len(calc.lines) = 2
  /\ calc.lines[1] = [kind |-> "info", cp |-> <<42>>, mate |-> <<>>,
                      pv |-> <<"2g2f">>]
  /\ calc.lines[2] = [kind |-> "info", cp |-> <<-7>>, mate |-> <<-3>>,
                      pv |-> <<"2g2f", "8c8d">>]
  /\ calc.out.mate
  /\ calc.out.mate_length = 3
  /\ calc.out.mate_moves = "2g2f 8c8d"

\* The info lines of the input that carry a mate distance or a centipawn
\* score, by position.
ScoredAt(ls) ==
  {i \in InfoAt(ls) : ls[i].mate # <<>> \/ ls[i].cp # <<>>}

\* C21 (as claimed): the result is taken from the last info line that carries
\* a mate distance or a centipawn score; a later info line that carries
\* neither does not displace it.
C21_LastScoredInfoDecides ==
  (calc.fn = "parseAnalysisResult" /\ calc.done /\ ScoredAt(calc.lines) # {}) =>
     LET last == calc.lines[CHOOSE i \in ScoredAt(calc.lines) :
                              \A j \in ScoredAt(calc.lines) : j <= i]
     IN IF last.mate # <<>>
          THEN calc.out.mate /\ calc.out.mate_length = abs(last.mate[1])
          ELSE ~calc.out.mate /\ calc.out.score = last.cp

\* C21 (amended): the result is taken from the last info line whatever it
\* carries: when that line has neither a mate distance nor a centipawn score
\* the result is mate = false, score = null, also when an earlier info line
\* carried one.
C21_BareInfoDisplaces ==
  (calc.fn = "parseAnalysisResult" /\ calc.done /\ InfoAt(calc.lines) # {}) =>
     LET last == calc.lines[CHOOSE i \in InfoAt(calc.lines) :
                              \A j \in InfoAt(calc.lines) : j <= i]
     IN (last.mate = <<>> /\ last.cp = <<>>) =>
          ~calc.out.mate /\ calc.out.score = <<>>

C21_Witness ==
  /\ calc.fn = "parseAnalysisResult"
  /\ calc.done
  /\ Len(calc.lines) = 2
  /\ calc.lines[1] = [kind |-> "info", cp |-> <<42>>, mate |-> <<>>,
                      pv |-> <<"2g2f">>]
  /\ calc.lines[2] = [kind |-> "info", cp |-> <<>>, mate |-> <<>>,
                      pv |-> <<>>]
  /\ ~calc.out.mate
  /\ calc.out.score = <<>>

size == Len(queue)

\* The calls that were enqueued and have not started.
Waiting == {t \in TaskIds : task[t].body = "waiting"}

\* C23: the queue's size is the number of enqueued tasks that have not yet
\* started (the executing one is not counted): the queue holds exactly the
\* waiting tasks, once each; its size is 0 before any call and 0 again when
\* every call has settled, failed ones included.
C23_SizeCountsWaiting ==
  /\ size = Cardinality(Waiting)
  /\ {queue[i] : i \in 1..Len(queue)} = Waiting
  /\ Executing \cap Waiting = {}
  /\ (\A t \in TaskIds : task[t].body = "new" \/ Settled(t)) => size = 0

C23_Witness ==
  /\ size = 0
  /\ task[1].future = "rejected"
  /\ task[2].future = "resolved"
  /\ ~running

\* The requests that carry a go, go mate, position, setoption or quit
\* command: those whose first word, in lower case, is one of these.
Dedicated ==
  {join(ws, " ") : ws \in {v \in RawCommands :
      toLowerCase(v[1]) \in {"go", "position", "setoption", "quit"}}}

\* C24: the raw-command route forwards no go, go mate, position, setoption
\* or quit command: such a request is answered 400, nothing is enqueued and
\* nothing is written for it.
C24_RawRouteBlocksDedicated ==
  /\ \A i \in 1..Len(wrote) :
       wrote[i].by.k = "task" => wrote[i].cmd \notin Dedicated
  /\ \A t \in TaskIds : task[t].cmd \notin Dedicated

\* C25 as stated: while isReady is false every request is answered with the
\* not-ready error, and nothing is enqueued or written for it.
C25_NotReadyAlways503 ==
  [][(host = "serving" /\ ~ready) =>
       /\ \A t \in TaskIds : task[t].body = "new" => task'[t] = task[t]
       /\ (event' # event /\ event'.a \in Routes \cup {"raw"}) =>
                   /\ event'.res = "503"
                   /\ wrote' = <<>>
                   /\ UNCHANGED <<task, queue, colls>>]_vars

\* C25: while isReady is false no request is accepted: each is answered with
\* the not-ready error, or with the error of its own validation when that
\* fails first, and nothing is enqueued or written for it.
C25_NotReadyRejects ==
  [][(host = "serving" /\ ~ready) =>
       /\ \A t \in TaskIds : task[t].body = "new" => task'[t] = task[t]
       /\ (event' # event /\ event'.a \in Routes \cup {"raw"}) =>
                   /\ event'.res \in {"503", "400"}
                   /\ wrote' = <<>>
                   /\ UNCHANGED <<task, queue, colls>>]_vars

C25_Witness ==
  /\ host = "serving"
  /\ ~ready
  /\ event.a \in Routes \cup {"raw"}
  /\ event.res = "503"

\* C26: once the host serves, every command is written by the task that
\* holds the queue (by its body or by its idle logic), by the handshake that
\* initializes a new process, or is the 'stop' of an authorized stopSearch;
\* and no other task's collection is in flight when a command other than
\* that 'stop' is written.
C26_OnlyQueueHolderWrites ==
  host = "serving" =>
    \A i \in 1..Len(wrote) :
      \/ wrote[i].by.k = "stopSearch" /\ wrote[i].cmd = "stop"
      \/ /\ wrote[i].by.k \in {"task", "idle", "restart"}
         /\ \A j \in 1..Len(colls) :
              (colls[j].owner.k = "task" /\ ~colls[j].dead) =>
                /\ wrote[i].by.k \in {"task", "idle"}
                /\ colls[j].owner.id = wrote[i].by.id

\* C27: once 'fatal' has been emitted no process is spawned, no restart is
\* scheduled, no pending restart is carried out and no handshake command is
\* written.
C27_FatalIsTerminal ==
  [][fatalEmitted > 0 =>
       /\ spawned' = spawned
       /\ scheduled' = scheduled
       /\ \A r \in RestartSlots :
            restarts[r].st = "timer" => restarts'[r].st = "timer"
       /\ \A i \in 1..Len(wrote') : wrote'[i].by.k \notin {"init", "restart"}]_vars

\* C28: the step in which a restart attempt fails (the spawn throws or a
\* handshake collector of the attempt times out) is one crash event: one
\* timestamp more in the pruned window, nothing spawned, the session not
\* made Ready, and then either 'fatal' with no restart armed, or one restart
\* armed with the backoff of the new window length, which is then the only
\* restart attempt there is.
C28_FailedRestartIsOneCrash ==
  [][(crashes' # crashes /\ alive' = alive) =>
       /\ crashes' = crashes + 1
       /\ crashTimestamps' = Append(prune(crashTimestamps), 0)
       /\ spawned' = spawned
       /\ ready' => ready
       /\ IF Len(crashTimestamps') > MAX_RETRIES
            THEN /\ fatalEmitted' = fatalEmitted + 1
                 /\ scheduled' = scheduled
                 /\ \A r \in RestartSlots : restarts'[r].st # "timer"
            ELSE /\ fatalEmitted' = fatalEmitted
                 /\ scheduled' = scheduled + 1
                 /\ \E r \in RestartSlots :
                      /\ restarts'[r] = [st |-> "timer",
                                         timer |->
                                           backoff(Len(crashTimestamps'))]
                      /\ \A q \in RestartSlots \ {r} :
                           restarts'[q].st = "free"]_vars

\* C29: an unbounded search (waittime 0) that is collecting never fails and
\* resolves only in the step that delivers a bestmove line, which is then
\* the last of its lines; the idle timer firing, a 'stop' written by the
\* idle logic or by stopSearch, and any other line leave it pending. The
\* idle logic writes 'stop' only when its timer fires, once, and every other
\* line re-arms that timer in full, so that lines less than 10 s apart never
\* let it fire.
C29_UnboundedResolvesOnBestmoveOnly ==
  [][\A t \in TaskIds, i \in 1..Len(colls) :
       (/\ colls[i].owner = TaskOwner(t)
        /\ colls[i].kind = "infinite"
        /\ ~colls[i].dead
        /\ task[t].body = "running"
        /\ host' # "exited") =>
         /\ task'[t].body # "failed"
         /\ task'[t].body = "done" =>
              /\ task'[t].future = "resolved"
              /\ Len(colls[i].lines) < cap.lines =>
                   task'[t].lines = Append(colls[i].lines, "bestmove")
              /\ \A j \in 1..Len(wrote') : wrote'[j].cmd # "stop"
         /\ task'[t].body = "running" =>
              \E k \in 1..Len(colls') :
                /\ colls'[k].owner = TaskOwner(t)
                /\ colls'[k].kind = "infinite"
                /\ (\E j \in 1..Len(wrote') : wrote'[j].by.k = "idle") =>
                     /\ colls[i].idleTimer # NoTimer
                     /\ ~colls[i].stopped
                     /\ colls'[k].stopped
                     /\ colls'[k].idleTimer = NoTimer
                     /\ colls'[k].lines = colls[i].lines
                /\ (colls'[k].lines # colls[i].lines) =>
                     /\ colls'[k].idleTimer = INFINITE_IDLE_MS
                     /\ \A j \in 1..Len(wrote') : wrote'[j].by.k # "idle"]_vars

\* The idle logic has written 'stop', lines have arrived since, and the call
\* is still pending.
C29_Witness ==
  \E t \in TaskIds, i \in 1..Len(colls) :
    /\ colls[i].owner = TaskOwner(t)
    /\ colls[i].kind = "infinite"
    /\ colls[i].stopped
    /\ colls[i].lines # <<>>
    /\ task[t].body = "running"
    /\ task[t].future = "pending"

\* C30: a raw-command collector that has received no non-blank line yet has
\* no idle timeout running: blank lines before the first content line do not
\* start it.
C30_LeadingBlanksStartNoIdleTimer ==
  \A i \in 1..Len(colls) :
    (/\ colls[i].owner.k = "task"
     /\ colls[i].stop = "raw"
     /\ ~colls[i].dead
     /\ ~colls[i].hasContent) => colls[i].idleTimer = NoTimer

\* C31: shutdown() completes without error whether or not the process is
\* still there when the grace period ends: the host then exits with code 0.
C31_ShutdownCompletes ==
  event.a = "shutdown" => event.res = "exit0"

\* C32: a crash event that schedules a restart arms it with 1000 ms times
\* the number of timestamps in the window after pruning and appending; a
\* restart timer is never armed with anything but 1000, 2000 or 3000 ms.
C32_BackoffDelay ==
  [][/\ scheduled' # scheduled =>
          /\ Len(crashTimestamps') \in 1..3
          /\ crashTimestamps' = Append(prune(crashTimestamps), 0)
          /\ \E r \in RestartSlots :
               restarts'[r] = [st |-> "timer",
                               timer |-> 1000 * Len(crashTimestamps')]
     /\ \A r \in RestartSlots :
          /\ restarts'[r].st = "timer" =>
               restarts'[r].timer \in {1000, 2000, 3000}
          /\ (restarts'[r].st = "timer" /\ restarts'[r] # restarts[r]) =>
               /\ scheduled' = scheduled + 1
               /\ restarts'[r].timer = 1000 * Len(crashTimestamps')]_vars

\* The third crash in the window has armed its restart with 3 s.
C32_Witness ==
  \E r \in RestartSlots :
    /\ restarts[r] = [st |-> "timer", timer |-> 3000]
    /\ Len(crashTimestamps) = 3
    /\ crashes = 3

\* C33: at most one engine process is alive at any time, and the exit of a
\* process that is not the current handle leaves the handle as it is.
C33_OneProcessAlive ==
  [][/\ Cardinality(alive') <= 1
     /\ \A p \in alive :
          (alive' = alive \ {p} /\ proc # NoProc /\ p # proc) =>
            proc' = proc]_vars

\* C34: at most one restart attempt is pending or in progress at any time,
\* and an unexpected process exit adds one timestamp to the window and
\* schedules at most one restart.
C34_OneRestartAtATime ==
  [][/\ Cardinality({r \in RestartSlots : restarts'[r].st # "free"}) <= 1
     /\ (~shuttingDown /\ \E p \in alive : alive' = alive \ {p}) =>
          /\ crashTimestamps' = Append(prune(crashTimestamps), 0)
          /\ scheduled' \in {scheduled, scheduled + 1}]_vars

\* C35: whenever isReady is true in a running host, the handle is non-null
\* and refers to a process that is alive.
C35_ReadyHasLiveHandle ==
  (ready /\ host # "exited") => (proc # NoProc /\ proc \in alive)

\* C36: an analyze call resolves on the bestmove line that answers its own
\* go command: the oldest search the engine has not answered yet is that of
\* the call which the line resolves.
C36_OwnBestmoveResolves ==
  [][\A t \in TaskIds :
       (/\ task[t].kind = "analyze"
        /\ task[t].body = "running"
        /\ task'[t].body = "done") => (owed # <<>> /\ Head(owed) = t)]_vars

\* C37: stopSearch writes 'stop' only for the token of an analyze call that
\* is executing, has written its go command (its collector is attached) and
\* does not settle in that step; with the token of a call that still waits
\* in the queue it fails and writes nothing, whatever search is running.
C37_StopOnlyForRunningOwner ==
  [][/\ \A tok \in TaskIds, j \in 1..Len(wrote') :
          (wrote'[j].by.k = "stopSearch" /\ wrote'[j].by.id = tok) =>
            /\ activeStopToken = tok
            /\ task[tok].kind = "analyze"
            /\ task[tok].tok = tok
            /\ task[tok].body = "running"
            /\ task'[tok] = task[tok]
            /\ \E i \in 1..Len(colls) :
                 /\ colls[i].owner = TaskOwner(tok)
                 /\ colls[i].cmd \in GoCommands
     /\ \A tok \in TaskIds :
          (event'.a = "stopSearch" /\ task[tok].body = "waiting"
             /\ StopSearch(tok)) =>
            /\ wrote' = <<>>
            /\ event'.res \in {"NO_SEARCH", "INVALID_TOKEN"}
            /\ task' = task /\ colls' = colls /\ queue' = queue]_vars

\* A stop written for the running streaming search while another streaming
\* search waits in the queue.
C37_Witness ==
  \E t \in TaskIds, u \in TaskIds :
    /\ Len(wrote) = 1
    /\ wrote[1] = [cmd |-> "stop", by |-> [k |-> "stopSearch", id |-> t],
                   pid |-> proc]
    /\ task[t].body = "running"
    /\ task[u].body = "waiting"
    /\ task[u].tok = u

\* C38 as claimed: every analyze or sendAndCollect call that has started
\* executing eventually settles, for every engine behaviour: also when the
\* engine exits during an unbounded search, or never prints a bestmove line
\* after the cancel command.
C38_StartedCallSettles ==
  \A t \in TaskIds :
    (task[t].kind \in {"analyze", "collect"} /\ task[t].body = "running")
       ~> (Settled(t) \/ host = "exited")

\* C39 as claimed: line collectors do not leak. At most one collector
\* listener is attached to the line source at any time; a collector is
\* attached, and its timers armed, only while its call is unsettled; and when
\* no queue task executes and no handshake is in progress no collector
\* remains, also after an engine crash in the middle of a command.
C39_CollectorsDoNotLeak ==
  host # "exited" =>
    /\ Len(colls) <= 1
    /\ \A i \in 1..Len(colls) :
         LET o == colls[i].owner
         IN  CASE o.k = "task" -> task[o.id].body = "running"
               [] o.k = "restart" -> restarts[o.id].st = "handshake"
               [] OTHER -> host = "starting"
    /\ (/\ \A t \in TaskIds : task[t].body # "running"
        /\ \A r \in RestartSlots : restarts[r].st # "handshake"
        /\ host # "starting") => colls = <<>>

\* C40 as claimed: after shutdown() has been called no new engine process is
\* spawned and no handshake command is written, even if a restart was pending
\* (backoff timer armed, or restart handshake in progress) at the call.
C40_NoRestartAfterShutdown ==
  [][shuttingDown =>
       /\ alive' \subseteq alive
       /\ \A j \in 1..Len(wrote') : wrote'[j].by.k \notin {"init", "restart"}]_vars

====
